---- MODULE Spec2Model ----
(***************************************************************************)
(* Sales ledger: the validated record manager (services/venda_service.py)  *)
(* over the ORM entity (models/venda.py) and its SQLite table.             *)
(*                                                                         *)
(* Text is a sequence of one-character strings, so that str.strip() and    *)
(* len() are computed and not assumed.  An Optional argument is <<>>       *)
(* (None) or <<v>>.  A price is held as its number of cents; sums and       *)
(* products of prices are computed in binary64 (section numbers).          *)
(***************************************************************************)
EXTENDS Integers, Sequences, FiniteSets, TLC

VARIABLES
    db,         \* the table vendas: id -> row
    clock,      \* the reading of datetime.now
    ret,        \* the call that has just run and its outcome, Idle between calls
    deletados,  \* history: the ids whose deletar_venda has succeeded
    contextos,  \* the service contexts entered and not yet left, innermost last
    abertas     \* the sessions handed out by get_db_session and not closed

vars == <<db, clock, ret, deletados, contextos, abertas>>

(* ------------------------------ bounds --------------------------------- *)

\* largest row id the table is allowed to reach in the model
MaxId == 2

\* largest reading of the wall clock
MaxClock == 1

(* ------------------------------- text ---------------------------------- *)

None == <<>>

Some(v) == <<v>>

\* characters str.strip() removes
Whitespace == {" "}

Rep(c, n) == [i \in 1..n |-> c]

SetMin(S) == CHOOSE x \in S : \A y \in S : x <= y

SetMax(S) == CHOOSE x \in S : \A y \in S : y <= x

RECURSIVE lstrip(_)
\* str.lstrip()
lstrip(s) == IF s # <<>> /\ Head(s) \in Whitespace THEN lstrip(Tail(s)) ELSE s

RECURSIVE rstrip(_)
\* str.rstrip()
rstrip(s) ==
    IF s # <<>> /\ s[Len(s)] \in Whitespace
    THEN rstrip(SubSeq(s, 1, Len(s) - 1)) ELSE s

\* str.strip(): drop leading and trailing whitespace
strip(s) == rstrip(lstrip(s))

\* Python truth value of an Optional[str]: None and "" are falsy
Truthy(o) == o # None /\ o[1] # <<>>

\* the idiom  x.strip() if x else None
StripOrNone(o) == IF Truthy(o) THEN Some(strip(o[1])) ELSE None

(* ------------------------------ numbers -------------------------------- *)

(***************************************************************************)
(* A price is a Python float (IEEE binary64).  A row holds the price as    *)
(* the whole number of cents of the decimal that was entered; Float gives  *)
(* the binary64 number that decimal is converted to.                       *)
(*                                                                         *)
(* Every binary64 number from 2^-8 up to 2^15 is a whole multiple of       *)
(* 2^-61.  A float is held as that multiple, written in base 2^24 as four  *)
(* digits <<d0, d1, d2, d3>>, least significant first.  An operation       *)
(* computes its exact result and rounds it to Precision significant binary *)
(* digits, ties to even, as the hardware does.  The prices, products and   *)
(* sums of the model stay below 2^15.                                      *)
(***************************************************************************)

\* binary digits of the significand of a binary64 number
Precision == 53

RECURSIVE Pow2(_)
Pow2(k) == IF k = 0 THEN 1 ELSE 2 * Pow2(k - 1)

\* the base of the digits
Base == Pow2(24)

RECURSIVE BitLen(_)
\* number of binary digits of a natural number
BitLen(n) == IF n = 0 THEN 0 ELSE 1 + BitLen(n \div 2)

\* bring every digit below Base, moving the excess to the next digit
Carry(n) ==
    LET t1 == n[2] + (n[1] \div Base)
        t2 == n[3] + (t1 \div Base)
        t3 == n[4] + (t2 \div Base)
    IN  <<n[1] % Base, t1 % Base, t2 % Base, t3>>

\* number of binary digits of the multiple x
Bits(x) ==
    IF x[4] # 0 THEN 72 + BitLen(x[4])
    ELSE IF x[3] # 0 THEN 48 + BitLen(x[3])
    ELSE IF x[2] # 0 THEN 24 + BitLen(x[2])
    ELSE BitLen(x[1])

\* round the exact value x (plus a little, when more holds) to Precision
\* significant digits, ties to even
Round(x, more) ==
    IF Bits(x) <= Precision THEN x
    ELSE LET s == Bits(x) - Precision
             rest == x[1] % Pow2(s)
             half == Pow2(s - 1)
             odd == (x[1] \div Pow2(s)) % 2 = 1
             up == rest > half \/ (rest = half /\ (more \/ odd))
         IN  Carry(<<x[1] - rest + (IF up THEN Pow2(s) ELSE 0),
                     x[2], x[3], x[4]>>)

\* float(text) of a decimal of two places, given as its number of cents:
\* the binary64 number nearest to cents / 100, by long division of
\* cents * 2^61 by 100
Float(cents) ==
    LET n == cents * Pow2(13)
        c3 == n \div Base
        c2 == ((c3 % 100) * Base) + (n % Base)
        c1 == (c2 % 100) * Base
        c0 == (c1 % 100) * Base
    IN  Round(<<c0 \div 100, c1 \div 100, c2 \div 100, c3 \div 100>>,
              (c0 % 100) # 0)

\* 0.0
FZero == <<0, 0, 0, 0>>

\* float + float
FAdd(x, y) == Round(Carry([i \in 1..4 |-> x[i] + y[i]]), FALSE)

\* float * int: the int (below 128) converts to float exactly, the exact
\* product is rounded
FMul(x, q) == Round(Carry([i \in 1..4 |-> x[i] * q]), FALSE)

\* float(k) of an int below 128: exact
FInt(k) == <<0, 0, (k * Pow2(13)) % Base, (k * Pow2(13)) \div Base>>

\* float / int, the int (below 128) converted exactly: long division,
\* the quotient rounded once
FDiv(x, n) ==
    LET c3 == x[4]
        c2 == ((c3 % n) * Base) + x[3]
        c1 == ((c2 % n) * Base) + x[2]
        c0 == ((c1 % n) * Base) + x[1]
    IN  Round(<<c0 \div n, c1 \div n, c2 \div n, c3 \div n>>, (c0 % n) # 0)

\* float < float
FLess(x, y) ==
    \E i \in 1..4 : x[i] < y[i] /\ \A j \in (i + 1)..4 : x[j] = y[j]

\* float - float for x >= y: digit by digit with borrow, then rounded
FSub(x, y) ==
    LET s1 == (x[1] - y[1]) + Base
        s2 == ((x[2] - y[2]) + Base) - (1 - (s1 \div Base))
        s3 == ((x[3] - y[3]) + Base) - (1 - (s2 \div Base))
        s4 == (x[4] - y[4]) - (1 - (s3 \div Base))
    IN  Round(<<s1 % Base, s2 % Base, s3 % Base, s4>>, FALSE)

(* ------------------------------ inputs --------------------------------- *)

\* String(100) / len(nome) > 100
MaxNomeLen == 100

Nome100 == Rep("c", MaxNomeLen)

\* names offered to criar_venda: empty, blank, padded, exactly 100 characters,
\* 100 characters plus a trailing blank, 101 characters
Nomes ==
    { <<>>, <<" ">>, <<" ", "b", " ">>, Nome100,
      Nome100 \o <<" ">>, Rep("c", MaxNomeLen + 1) }

Precos == {0, 20}

Quantidades == {0, 1}

\* Optional[str] observations: None, "", " x"
Observacoes == { None, Some(<<>>), Some(<<" ", "x">>) }

\* names offered to atualizar_venda (Optional[str])
NomesAtualizar ==
    { None, Some(<<" ">>), Some(<<" ", "b", " ">>), Some(Nome100 \o <<" ">>) }

PrecosAtualizar == { None, Some(0), Some(20) }

QuantidadesAtualizar == { None, Some(0), Some(1) }

\* search strings offered to buscar_por_nome
Buscas == { <<>>, <<"B">>, <<"_">> }

\* ids offered to the operations: every id the table can hold and one more
Ids == 1..(MaxId + 1)

\* where the storage fails during a call: nowhere, at the lookup query, at the
\* commit
Falhas == {"", "busca", "commit"}

(* ------------------------------ messages ------------------------------- *)

MsgNomeObrigatorio == "Nome do produto e obrigatorio"

MsgPreco == "Preco deve ser maior que zero"

MsgQuantidade == "Quantidade deve ser maior que zero"

MsgNomeMax == "Nome do produto deve ter no maximo 100 caracteres"

MsgNomeEntre == "Nome do produto deve ter entre 1 e 100 caracteres"

MsgNaoEncontrada == "Venda com ID nao encontrada"

MsgOk == ""

ValueError == "ValueError"

SQLAlchemyError == "SQLAlchemyError"

NoExc == ""

(* ------------------------------ the table ------------------------------ *)

Row(i, nome, preco, quantidade, data, obs) ==
    [id |-> i, nome |-> nome, preco |-> preco, quantidade |-> quantidade,
     data_venda |-> data, observacoes |-> obs]

\* id = Column(Integer, primary_key=True, autoincrement=True) on sqlite:///:
\* the DDL carries no AUTOINCREMENT keyword, so SQLite hands out the largest
\* rowid in the table plus one (1 for an empty table)
NextId(d) == IF DOMAIN d = {} THEN 1 ELSE SetMax(DOMAIN d) + 1

\* session.add(venda): the row is pending in the session
Insert(d, r) == [i \in DOMAIN d \cup {r.id} |-> IF i = r.id THEN r ELSE d[i]]

\* session.delete(venda): the removal is pending in the session
Remove(d, i) == [j \in DOMAIN d \ {i} |-> d[j]]

\* mutant: the rollback is missing, the pending changes are flushed later
SemRollback(d, pending) == pending

\* session.rollback(): pending changes are discarded, the table is as before
Rollback(d, pending) == d

\* session.commit(): pending changes reach the table
Commit(d, pending) == pending

\* mutant: the filter on the id is missing, first() returns the first row
buscar_por_id_sem_filtro(d, i) ==
    IF DOMAIN d = {} THEN None ELSE Some(d[SetMin(DOMAIN d)])

\* Venda.buscar_por_id: the row with that id, or None
buscar_por_id(d, i) == IF i \in DOMAIN d THEN Some(d[i]) ELSE None

\* VendaService.buscar_venda: a storage failure is logged and None returned
buscar_venda(d, i, falha) == IF falha THEN None ELSE buscar_por_id(d, i)

\* the result of a call: operation, arguments, exception raised (if any) with
\* its message, value returned (if any)
Result(op, args, exc, msg, val) ==
    [op |-> op, args |-> args, exc |-> exc, msg |-> msg, val |-> val]

Idle == Result("idle", None, NoExc, MsgOk, None)

(* ---------------------------- criar_venda ------------------------------ *)

\* mutant: the price check is missing
ValidarCriarSemPreco(nome, preco, quantidade) ==
    IF nome = <<>> \/ strip(nome) = <<>> THEN MsgNomeObrigatorio
    ELSE IF quantidade <= 0 THEN MsgQuantidade
    ELSE IF Len(nome) > MaxNomeLen THEN MsgNomeMax
    ELSE MsgOk

\* mutant: the blank-name check looks at the untrimmed name only
ValidarCriarSemStrip(nome, preco, quantidade) ==
    IF nome = <<>> THEN MsgNomeObrigatorio
    ELSE IF preco <= 0 THEN MsgPreco
    ELSE IF quantidade <= 0 THEN MsgQuantidade
    ELSE IF Len(nome) > MaxNomeLen THEN MsgNomeMax
    ELSE MsgOk

\* the validations of VendaService.criar_venda, in the order of the code
ValidarCriar(nome, preco, quantidade) ==
    IF nome = <<>> \/ strip(nome) = <<>> THEN MsgNomeObrigatorio
    ELSE IF preco <= 0 THEN MsgPreco
    ELSE IF quantidade <= 0 THEN MsgQuantidade
    ELSE IF Len(nome) > MaxNomeLen THEN MsgNomeMax
    ELSE MsgOk

\* mutant: the name is stored as passed, untrimmed
NovaVendaSemStrip(d, nome, preco, quantidade, observacoes, agora) ==
    Row(NextId(d), nome, preco, quantidade, agora, StripOrNone(observacoes))

\* the entity criar_venda hands to the model: trimmed name, trimmed
\* observations (None when empty), id from the table, data_venda = now
NovaVenda(d, nome, preco, quantidade, observacoes, agora) ==
    Row(NextId(d), strip(nome), preco, quantidade, agora,
        StripOrNone(observacoes))

\* Venda.criar_venda: add, commit, refresh; rollback when the commit fails
ModelCriarVenda(d, venda, falha) ==
    IF falha THEN Rollback(d, Insert(d, venda)) ELSE Commit(d, Insert(d, venda))

CriarVenda(nome, preco, quantidade, observacoes, falha) ==
    LET args == [nome |-> nome, preco |-> preco, quantidade |-> quantidade,
                 observacoes |-> observacoes, falha |-> falha]
        msg == ValidarCriar(nome, preco, quantidade)
        venda == NovaVenda(db, nome, preco, quantidade, observacoes, clock)
    IN  /\ ret = Idle
        /\ NextId(db) <= MaxId
        /\ UNCHANGED clock
        /\ IF msg # MsgOk
           THEN /\ db' = db
                /\ ret' = Result("criar_venda", args, ValueError, msg, None)
           ELSE /\ db' = ModelCriarVenda(db, venda, falha)
                /\ ret' = IF falha
                          THEN Result("criar_venda", args, SQLAlchemyError, MsgOk, None)
                          ELSE Result("criar_venda", args, NoExc, MsgOk, Some(venda))

(* ---------------------------- buscar_venda ----------------------------- *)

BuscarVenda(venda_id, falha) ==
    /\ ret = Idle
    /\ UNCHANGED <<db, clock>>
    /\ ret' = Result("buscar_venda", [venda_id |-> venda_id, falha |-> falha],
                     NoExc, MsgOk, buscar_venda(db, venda_id, falha))

(* --------------------------- atualizar_venda --------------------------- *)

\* the validations of VendaService.atualizar_venda, in the order of the code
ValidarAtualizar(nome, preco, quantidade) ==
    IF nome # None /\ (strip(nome[1]) = <<>> \/ Len(nome[1]) > MaxNomeLen)
    THEN MsgNomeEntre
    ELSE IF preco # None /\ preco[1] <= 0 THEN MsgPreco
    ELSE IF quantidade # None /\ quantidade[1] <= 0 THEN MsgQuantidade
    ELSE MsgOk

\* mutant: observacoes is assigned even when it is None
AtribuirObservacoes(venda, nome, preco, quantidade, observacoes) ==
    [venda EXCEPT
        !.nome = IF nome # None THEN nome[1] ELSE @,
        !.preco = IF preco # None THEN preco[1] ELSE @,
        !.quantidade = IF quantidade # None THEN quantidade[1] ELSE @,
        !.observacoes = observacoes]

\* the assignments of Venda.atualizar: an argument that is not None replaces
\* the attribute, the others (and id, data_venda) stay
Atribuir(venda, nome, preco, quantidade, observacoes) ==
    [venda EXCEPT
        !.nome = IF nome # None THEN nome[1] ELSE @,
        !.preco = IF preco # None THEN preco[1] ELSE @,
        !.quantidade = IF quantidade # None THEN quantidade[1] ELSE @,
        !.observacoes = IF observacoes # None THEN observacoes ELSE @]

\* Venda.atualizar: assign, commit; rollback when the commit fails
ModelAtualizar(d, venda, nome, preco, quantidade, observacoes, falha) ==
    LET pending == [d EXCEPT ![venda.id] =
                        Atribuir(venda, nome, preco, quantidade, observacoes)]
    IN  IF falha THEN Rollback(d, pending) ELSE Commit(d, pending)

AtualizarVenda(venda_id, nome, preco, quantidade, observacoes, falha) ==
    LET args == [venda_id |-> venda_id, nome |-> nome, preco |-> preco,
                 quantidade |-> quantidade, observacoes |-> observacoes,
                 falha |-> falha]
        venda == buscar_venda(db, venda_id, falha = "busca")
        msg == ValidarAtualizar(nome, preco, quantidade)
    IN  /\ ret = Idle
        /\ UNCHANGED clock
        /\ IF venda = None
           THEN /\ db' = db
                /\ ret' = Result("atualizar_venda", args, ValueError,
                                 MsgNaoEncontrada, None)
           ELSE IF msg # MsgOk
           THEN /\ db' = db
                /\ ret' = Result("atualizar_venda", args, ValueError, msg, None)
           ELSE /\ db' = ModelAtualizar(db, venda[1],
                                        IF Truthy(nome) THEN Some(strip(nome[1])) ELSE None,
                                        preco, quantidade,
                                        StripOrNone(observacoes), falha = "commit")
                /\ ret' = IF falha = "commit"
                          THEN Result("atualizar_venda", args, SQLAlchemyError,
                                      MsgOk, None)
                          ELSE Result("atualizar_venda", args, NoExc, MsgOk,
                                      Some(TRUE))

(* ---------------------------- deletar_venda ---------------------------- *)

\* Venda.deletar: delete, commit; rollback when the commit fails
ModelDeletar(d, venda, falha) ==
    IF falha THEN Rollback(d, Remove(d, venda.id))
    ELSE Commit(d, Remove(d, venda.id))

DeletarVenda(venda_id, falha) ==
    LET args == [venda_id |-> venda_id, falha |-> falha]
        venda == buscar_venda(db, venda_id, falha = "busca")
    IN  /\ ret = Idle
        /\ UNCHANGED clock
        /\ IF venda = None
           THEN /\ db' = db
                /\ ret' = Result("deletar_venda", args, ValueError,
                                 MsgNaoEncontrada, None)
           ELSE /\ db' = ModelDeletar(db, venda[1], falha = "commit")
                /\ ret' = IF falha = "commit"
                          THEN Result("deletar_venda", args, SQLAlchemyError,
                                      MsgOk, None)
                          ELSE Result("deletar_venda", args, NoExc, MsgOk,
                                      Some(TRUE))

(* ------------------------------- queries ------------------------------- *)

RECURSIVE InsertDescSemEmpate(_, _)
\* mutant: a row is placed before the rows of the same data_venda
InsertDescSemEmpate(r, lst) ==
    IF lst = <<>> THEN <<r>>
    ELSE IF Head(lst).data_venda > r.data_venda
         THEN <<Head(lst)>> \o InsertDescSemEmpate(r, Tail(lst))
         ELSE <<r>> \o lst

RECURSIVE InsertDesc(_, _)
\* place row r in a list ordered by data_venda descending, after the rows
\* that are not older than it
InsertDesc(r, lst) ==
    IF lst = <<>> THEN <<r>>
    ELSE IF Head(lst).data_venda >= r.data_venda
         THEN <<Head(lst)>> \o InsertDesc(r, Tail(lst))
         ELSE <<r>> \o lst

RECURSIVE SortDesc(_, _)
\* ORDER BY data_venda DESC over the rows with ids in S, scanned in rowid
\* order; rows of equal data_venda stay in rowid order
SortDesc(d, S) ==
    IF S = {} THEN <<>>
    ELSE LET i == SetMax(S) IN InsertDesc(d[i], SortDesc(d, S \ {i}))

\* Venda.listar_todas
listar_todas(d) == SortDesc(d, DOMAIN d)

\* SQL lower() on the characters of the model
Lower(c) == IF c = "B" THEN "b" ELSE IF c = "C" THEN "c" ELSE IF c = "X" THEN "x" ELSE c

RECURSIVE MatchAt(_, _, _)
\* SQL LIKE, case-insensitive, of pattern pat against a prefix of s that
\* starts at position i: % matches any run of characters, _ any one
MatchAt(pat, s, i) ==
    IF pat = <<>> THEN TRUE
    ELSE IF Head(pat) = "%"
         THEN \E j \in i..(Len(s) + 1) : MatchAt(Tail(pat), s, j)
    ELSE /\ i <= Len(s)
         /\ (Head(pat) = "_" \/ Lower(Head(pat)) = Lower(s[i]))
         /\ MatchAt(Tail(pat), s, i + 1)

\* s ILIKE '%<nome>%'
ILike(nome, s) == \E i \in 1..(Len(s) + 1) : MatchAt(nome, s, i)

\* Venda.buscar_por_nome: nome ILIKE '%<nome>%', no ORDER BY (rowid order)
buscar_por_nome(d, nome) ==
    LET hit == {i \in DOMAIN d : ILike(nome, d[i].nome)}
        RECURSIVE Scan(_)
        Scan(S) == IF S = {} THEN <<>>
                   ELSE LET i == SetMin(S) IN <<d[i]>> \o Scan(S \ {i})
    IN  Scan(hit)

\* Venda.calcular_faturamento: float * int
calcular_faturamento(v) == FMul(Float(v.preco), v.quantidade)

\* the list without its last element
Front(lst) == SubSeq(lst, 1, Len(lst) - 1)

RECURSIVE SomaFaturamento(_)
\* sum(v.calcular_faturamento() for v in vendas): added from the first on
SomaFaturamento(vendas) ==
    IF vendas = <<>> THEN FZero
    ELSE FAdd(SomaFaturamento(Front(vendas)),
              calcular_faturamento(vendas[Len(vendas)]))

RECURSIVE SomaQuantidade(_)
\* sum(v.quantidade for v in vendas)
SomaQuantidade(vendas) ==
    IF vendas = <<>> THEN 0
    ELSE SomaQuantidade(Front(vendas)) + vendas[Len(vendas)].quantidade

RECURSIVE SomaPreco(_)
\* sum(v.preco for v in vendas): added from the first on
SomaPreco(vendas) ==
    IF vendas = <<>> THEN FZero
    ELSE FAdd(SomaPreco(Front(vendas)), Float(vendas[Len(vendas)].preco))

\* mutant: the mean price is weighted by the quantities sold
obter_estatisticas_ponderado(vendas) ==
    IF vendas = <<>>
    THEN [total_vendas |-> 0, faturamento_total |-> FZero,
          quantidade_total |-> 0,
          preco_medio |-> <<FZero, 1>>, quantidade_media |-> <<0, 1>>]
    ELSE [total_vendas |-> Len(vendas),
          faturamento_total |-> SomaFaturamento(vendas),
          quantidade_total |-> SomaQuantidade(vendas),
          preco_medio |-> <<SomaFaturamento(vendas), SomaQuantidade(vendas)>>,
          quantidade_media |-> <<SomaQuantidade(vendas), Len(vendas)>>]

\* VendaService.obter_estatisticas over the list read; a mean is kept as the
\* pair <<sum, count>> it is the quotient of (0.0 as <<0.0, 1>>)
obter_estatisticas(vendas) ==
    IF vendas = <<>>
    THEN [total_vendas |-> 0, faturamento_total |-> FZero,
          quantidade_total |-> 0,
          preco_medio |-> <<FZero, 1>>, quantidade_media |-> <<0, 1>>]
    ELSE [total_vendas |-> Len(vendas),
          faturamento_total |-> SomaFaturamento(vendas),
          quantidade_total |-> SomaQuantidade(vendas),
          preco_medio |-> <<SomaPreco(vendas), Len(vendas)>>,
          quantidade_media |-> <<SomaQuantidade(vendas), Len(vendas)>>]

\* VendaService.listar_todas: a storage failure is logged and [] returned
ListarTodas(falha) ==
    /\ ret = Idle
    /\ UNCHANGED <<db, clock>>
    /\ ret' = Result("listar_todas", [falha |-> falha], NoExc, MsgOk,
                     IF falha THEN <<>> ELSE listar_todas(db))

\* VendaService.buscar_por_nome: a storage failure is logged and [] returned
BuscarPorNome(nome, falha) ==
    /\ ret = Idle
    /\ UNCHANGED <<db, clock>>
    /\ ret' = Result("buscar_por_nome", [nome |-> nome, falha |-> falha], NoExc,
                     MsgOk, IF falha THEN <<>> ELSE buscar_por_nome(db, nome))

\* VendaService.obter_estatisticas: reads through self.listar_todas()
ObterEstatisticas(falha) ==
    /\ ret = Idle
    /\ UNCHANGED <<db, clock>>
    /\ ret' = Result("obter_estatisticas", [falha |-> falha], NoExc, MsgOk,
                     Some(obter_estatisticas(IF falha THEN <<>> ELSE listar_todas(db))))

(* ----------------------------- the system ------------------------------ *)

\* the caller has taken the result; the next call can start
Return ==
    /\ ret # Idle
    /\ ret' = Idle
    /\ UNCHANGED <<db, clock>>

\* datetime.now advances
Tick ==
    /\ ret = Idle
    /\ clock < MaxClock
    /\ clock' = clock + 1
    /\ UNCHANGED <<db, ret>>

Init ==
    /\ deletados = {}
    /\ contextos = <<>>
    /\ abertas = {}
    /\ db = <<>>
    /\ clock = 0
    /\ ret = Idle

ChamarCriarVenda ==
    /\ ret = Idle
    /\ \E nome \in Nomes, preco \in Precos, quantidade \in Quantidades,
          observacoes \in Observacoes, falha \in BOOLEAN :
          CriarVenda(nome, preco, quantidade, observacoes, falha)

ChamarBuscarVenda ==
    /\ ret = Idle
    /\ \E venda_id \in Ids, falha \in BOOLEAN : BuscarVenda(venda_id, falha)

ChamarAtualizarVenda ==
    /\ ret = Idle
    /\ \E venda_id \in Ids, nome \in NomesAtualizar, preco \in PrecosAtualizar,
          quantidade \in QuantidadesAtualizar, observacoes \in Observacoes,
          falha \in Falhas :
          AtualizarVenda(venda_id, nome, preco, quantidade, observacoes, falha)

ChamarDeletarVenda ==
    /\ ret = Idle
    /\ \E venda_id \in Ids, falha \in Falhas : DeletarVenda(venda_id, falha)

ChamarListarTodas ==
    /\ ret = Idle
    /\ \E falha \in BOOLEAN : ListarTodas(falha)

ChamarBuscarPorNome ==
    /\ ret = Idle
    /\ \E nome \in Buscas, falha \in BOOLEAN : BuscarPorNome(nome, falha)

ChamarObterEstatisticas ==
    /\ ret = Idle
    /\ \E falha \in BOOLEAN : ObterEstatisticas(falha)

\* the history of successful deletions, kept when track holds; the methods
\* of the services enter and leave no context and open and close no session
Registrar(track) ==
    /\ deletados' = IF track /\ ret'.op = "deletar_venda" /\ ret'.exc = NoExc
                    THEN deletados \cup {ret'.args.venda_id}
                    ELSE deletados
    /\ UNCHANGED <<contextos, abertas>>

\* single-threaded and synchronous: a call starts once the previous one has
\* returned
Next ==
    \/ Tick /\ Registrar(FALSE)
    \/ Return /\ Registrar(FALSE)
    \/ ChamarCriarVenda /\ Registrar(FALSE)
    \/ ChamarBuscarVenda /\ Registrar(FALSE)
    \/ ChamarAtualizarVenda /\ Registrar(FALSE)
    \/ ChamarDeletarVenda /\ Registrar(FALSE)
    \/ ChamarListarTodas /\ Registrar(FALSE)
    \/ ChamarBuscarPorNome /\ Registrar(FALSE)
    \/ ChamarObterEstatisticas /\ Registrar(FALSE)

\* the same steps, with the history of deletions recorded
NextHist ==
    \/ Tick /\ Registrar(TRUE)
    \/ Return /\ Registrar(TRUE)
    \/ ChamarCriarVenda /\ Registrar(TRUE)
    \/ ChamarBuscarVenda /\ Registrar(TRUE)
    \/ ChamarAtualizarVenda /\ Registrar(TRUE)
    \/ ChamarDeletarVenda /\ Registrar(TRUE)
    \/ ChamarListarTodas /\ Registrar(TRUE)
    \/ ChamarBuscarPorNome /\ Registrar(TRUE)
    \/ ChamarObterEstatisticas /\ Registrar(TRUE)

Spec == Init /\ [][Next]_vars

SpecHist == Init /\ [][NextHist]_vars

(* ------------------------ the ledger with figures ---------------------- *)

\* product names, unit prices and quantities of the sales whose figures are
\* summed and compared: two products, a price below and one at the default
\* low-cost limit of 20.00, a quantity below and one above their mean
NomesValores == { <<"a">>, <<"b">> }

PrecosValores == {1990, 2000}

QuantidadesValores == {1, 3}

ChamarCriarVendaValores ==
    /\ ret = Idle
    /\ \E nome \in NomesValores, preco \in PrecosValores,
          quantidade \in QuantidadesValores :
          CriarVenda(nome, preco, quantidade, None, FALSE)

ChamarAtualizarVendaValores ==
    /\ ret = Idle
    /\ \E venda_id \in Ids, preco \in PrecosValores,
          quantidade \in QuantidadesValores :
          AtualizarVenda(venda_id, None, Some(preco), Some(quantidade), None, "")

ChamarDeletarVendaValores ==
    /\ ret = Idle
    /\ \E venda_id \in Ids : DeletarVenda(venda_id, "")

\* the manager over a ledger of varied figures
NextEstatisticas ==
    \/ Tick /\ Registrar(FALSE)
    \/ Return /\ Registrar(FALSE)
    \/ ChamarCriarVendaValores /\ Registrar(FALSE)
    \/ ChamarAtualizarVendaValores /\ Registrar(FALSE)
    \/ ChamarDeletarVendaValores /\ Registrar(FALSE)
    \/ ChamarObterEstatisticas /\ Registrar(FALSE)

SpecEstatisticas == Init /\ [][NextEstatisticas]_vars

(* --------------------------- AnaliseService ---------------------------- *)

\* largest number of rows of a table the analyses are run over
MaxVendas == 3

\* the sales a table under analysis is made of: product, price in cents
\* (19.90, 20.00, 29.90, 60.00) and quantity
Catalogo ==
    { [nome |-> <<"a">>, preco |-> 1990, quantidade |-> 1],
      [nome |-> <<"a">>, preco |-> 2000, quantidade |-> 3],
      [nome |-> <<"b">>, preco |-> 2990, quantidade |-> 2],
      [nome |-> <<"B">>, preco |-> 6000, quantidade |-> 1] }

\* the tables of at most MaxVendas rows made of sales of the catalogue,
\* inserted one after the other as the clock goes from 0 to MaxClock
Tabelas ==
    UNION { { [i \in 1..n |-> Row(i, c[i].nome, c[i].preco, c[i].quantidade,
                                  t[i], None)] :
                c \in [1..n -> Catalogo],
                t \in {u \in [1..n -> 0..MaxClock] :
                          \A i \in 1..n, j \in 1..n : i < j => u[i] <= u[j]} } :
            n \in 0..MaxVendas }

\* the entry of a sale in 'itens' and 'produtos'
ItemDetalhado(venda) ==
    [id |-> venda.id, nome |-> venda.nome, preco |-> venda.preco,
     quantidade |-> venda.quantidade,
     faturamento |-> calcular_faturamento(venda), data |-> venda.data_venda]

RECURSIVE FaturamentoAcumuladoSemQuantidade(_)
\* mutant: the price is added, not the price times the quantity
FaturamentoAcumuladoSemQuantidade(vendas) ==
    IF vendas = <<>> THEN FZero
    ELSE FAdd(FaturamentoAcumuladoSemQuantidade(Front(vendas)),
              Float(vendas[Len(vendas)].preco))

RECURSIVE FaturamentoAcumulado(_)
\* faturamento_total after the loop over vendas: 0.0, then += per sale
FaturamentoAcumulado(vendas) ==
    IF vendas = <<>> THEN FZero
    ELSE FAdd(FaturamentoAcumulado(Front(vendas)),
              calcular_faturamento(vendas[Len(vendas)]))

\* AnaliseService.calcular_faturamento_total over the list read
calcular_faturamento_total(vendas) ==
    IF vendas = <<>>
    THEN [faturamento_total |-> FZero, itens |-> <<>>, total_itens |-> 0]
    ELSE [faturamento_total |-> FaturamentoAcumulado(vendas),
          itens |-> [k \in 1..Len(vendas) |-> ItemDetalhado(vendas[k])],
          total_itens |-> Len(vendas)]

\* AnaliseService.calcular_faturamento_total: reads the table; any exception
\* is logged and the zero result returned
CalcularFaturamentoTotal(falha) ==
    /\ ret = Idle
    /\ UNCHANGED <<db, clock>>
    /\ ret' = Result("calcular_faturamento_total", [falha |-> falha], NoExc,
                     MsgOk,
                     IF falha
                     THEN [faturamento_total |-> FZero, itens |-> <<>>,
                           total_itens |-> 0]
                     ELSE calcular_faturamento_total(listar_todas(db)))

ChamarCalcularFaturamentoTotal ==
    /\ ret = Idle
    /\ \E falha \in BOOLEAN : CalcularFaturamentoTotal(falha)

\* the limits given to the low-cost analysis, in cents: 19.90, the default
\* 20.00, and 90.00
Limites == {1990, 2000, 9000}

RECURSIVE ProdutosAteLimite(_, _)
\* mutant: a sale at the limit is selected too
ProdutosAteLimite(vendas, limite_preco) ==
    IF vendas = <<>> THEN <<>>
    ELSE ProdutosAteLimite(Front(vendas), limite_preco)
         \o (IF vendas[Len(vendas)].preco <= limite_preco
             THEN <<ItemDetalhado(vendas[Len(vendas)])>> ELSE <<>>)

RECURSIVE ProdutosBaixoCusto(_, _)
\* the loop of analisar_produtos_baixo_custo: the sales with
\* venda.preco < limite_preco, appended in the order of the list
ProdutosBaixoCusto(vendas, limite_preco) ==
    IF vendas = <<>> THEN <<>>
    ELSE ProdutosBaixoCusto(Front(vendas), limite_preco)
         \o (IF vendas[Len(vendas)].preco < limite_preco
             THEN <<ItemDetalhado(vendas[Len(vendas)])>> ELSE <<>>)

RECURSIVE SomaFaturamentoItens(_)
\* sum(p['faturamento'] for p in itens)
SomaFaturamentoItens(itens) ==
    IF itens = <<>> THEN FZero
    ELSE FAdd(SomaFaturamentoItens(Front(itens)), itens[Len(itens)].faturamento)

\* AnaliseService.analisar_produtos_baixo_custo over the list read
analisar_produtos_baixo_custo(vendas, limite_preco) ==
    LET produtos_baixo_custo == ProdutosBaixoCusto(vendas, limite_preco)
    IN  [limite_preco |-> limite_preco,
         produtos |-> produtos_baixo_custo,
         total_produtos |-> Len(produtos_baixo_custo),
         faturamento_total |-> SomaFaturamentoItens(produtos_baixo_custo)]

\* AnaliseService.analisar_produtos_baixo_custo: reads the table; any
\* exception is logged and the empty result returned
AnalisarProdutosBaixoCusto(limite_preco, falha) ==
    /\ ret = Idle
    /\ UNCHANGED <<db, clock>>
    /\ ret' = Result("analisar_produtos_baixo_custo",
                     [limite_preco |-> limite_preco, falha |-> falha], NoExc,
                     MsgOk,
                     IF falha
                     THEN [limite_preco |-> limite_preco, produtos |-> <<>>,
                           total_produtos |-> 0, faturamento_total |-> FZero]
                     ELSE analisar_produtos_baixo_custo(listar_todas(db),
                                                        limite_preco))

ChamarAnalisarProdutosBaixoCusto ==
    /\ ret = Idle
    /\ \E limite_preco \in Limites, falha \in BOOLEAN :
          AnalisarProdutosBaixoCusto(limite_preco, falha)

\* the entry of a sale in 'itens_acima_media'
ItemAcimaDaMedia(venda, quantidade_media) ==
    [id |-> venda.id, nome |-> venda.nome, quantidade |-> venda.quantidade,
     quantidade_media |-> quantidade_media,
     diferenca |-> FSub(FInt(venda.quantidade), quantidade_media),
     faturamento |-> calcular_faturamento(venda), data |-> venda.data_venda]

RECURSIVE ItensNaMediaOuAcima(_, _)
\* mutant: a sale exactly at the mean is selected too
ItensNaMediaOuAcima(vendas, quantidade_media) ==
    IF vendas = <<>> THEN <<>>
    ELSE ItensNaMediaOuAcima(Front(vendas), quantidade_media)
         \o (IF ~FLess(FInt(vendas[Len(vendas)].quantidade), quantidade_media)
             THEN <<ItemAcimaDaMedia(vendas[Len(vendas)], quantidade_media)>>
             ELSE <<>>)

RECURSIVE ItensAcimaDaMedia(_, _)
\* the loop of analisar_vendas_acima_da_media: the sales with
\* venda.quantidade > quantidade_media, appended in the order of the list
ItensAcimaDaMedia(vendas, quantidade_media) ==
    IF vendas = <<>> THEN <<>>
    ELSE ItensAcimaDaMedia(Front(vendas), quantidade_media)
         \o (IF FLess(quantidade_media, FInt(vendas[Len(vendas)].quantidade))
             THEN <<ItemAcimaDaMedia(vendas[Len(vendas)], quantidade_media)>>
             ELSE <<>>)

\* mutant: the empty list reports a mean of 1.0
AcimaDaMediaVazioUm ==
    [quantidade_media |-> FInt(1), itens_acima_media |-> <<>>,
     total_itens_acima_media |-> 0]

\* what analisar_vendas_acima_da_media returns for 'not vendas'
AcimaDaMediaVazio ==
    [quantidade_media |-> FZero, itens_acima_media |-> <<>>,
     total_itens_acima_media |-> 0]

\* what analisar_vendas_acima_da_media returns from its except clause
AcimaDaMediaErro ==
    [quantidade_media |-> FZero, itens_acima_media |-> <<>>,
     total_itens_acima_media |-> 0, total_vendas |-> 0]

\* AnaliseService.analisar_vendas_acima_da_media over the list read
analisar_vendas_acima_da_media(vendas) ==
    IF vendas = <<>> THEN AcimaDaMediaVazio
    ELSE LET total_quantidade == SomaQuantidade(vendas)
             quantidade_media == FDiv(FInt(total_quantidade), Len(vendas))
             itens_acima_media == ItensAcimaDaMedia(vendas, quantidade_media)
         IN  [quantidade_media |-> quantidade_media,
              itens_acima_media |-> itens_acima_media,
              total_itens_acima_media |-> Len(itens_acima_media),
              total_vendas |-> Len(vendas)]

\* AnaliseService.analisar_vendas_acima_da_media: reads the table; any
\* exception is logged and the result of the except clause returned
AnalisarVendasAcimaDaMedia(falha) ==
    /\ ret = Idle
    /\ UNCHANGED <<db, clock>>
    /\ ret' = Result("analisar_vendas_acima_da_media", [falha |-> falha],
                     NoExc, MsgOk,
                     IF falha THEN AcimaDaMediaErro
                     ELSE analisar_vendas_acima_da_media(listar_todas(db)))

ChamarAnalisarVendasAcimaDaMedia ==
    /\ ret = Idle
    /\ \E falha \in BOOLEAN : AnalisarVendasAcimaDaMedia(falha)

RECURSIVE NomesDistintos(_)
\* the keys of produtos_agrupados in the order they were first seen
NomesDistintos(vendas) ==
    IF vendas = <<>> THEN <<>>
    ELSE LET nomes == NomesDistintos(Front(vendas))
             nome == vendas[Len(vendas)].nome
         IN  IF \E k \in 1..Len(nomes) : nomes[k] = nome
             THEN nomes ELSE Append(nomes, nome)

\* mutant: the key is compared without regard to case
VendasDoProdutoSemCaixa(vendas, nome) ==
    LET MesmoNome(v) ==
            /\ Len(v.nome) = Len(nome)
            /\ \A k \in 1..Len(nome) : Lower(v.nome[k]) = Lower(nome[k])
    IN  SelectSeq(vendas, MesmoNome)

\* the sales of the list filed under the key nome, in the order of the list
VendasDoProduto(vendas, nome) ==
    LET MesmoNome(v) == v.nome = nome
    IN  SelectSeq(vendas, MesmoNome)

\* mutant: the mean price is the revenue divided by the quantity
ProdutoAgrupadoPonderado(vendas, nome) ==
    LET grupo == VendasDoProduto(vendas, nome)
    IN  [quantidade_total |-> SomaQuantidade(grupo),
         faturamento_total |-> FaturamentoAcumulado(grupo),
         preco_medio |-> FDiv(FaturamentoAcumulado(grupo),
                              SomaQuantidade(grupo)),
         vendas |-> [k \in 1..Len(grupo) |->
                        [id |-> grupo[k].id, preco |-> grupo[k].preco,
                         quantidade |-> grupo[k].quantidade,
                         data |-> grupo[k].data_venda]]]

\* the entry of produtos_agrupados[nome] after the two loops of
\* analisar_vendas_por_produto
ProdutoAgrupado(vendas, nome) ==
    LET grupo == VendasDoProduto(vendas, nome)
    IN  [quantidade_total |-> SomaQuantidade(grupo),
         faturamento_total |-> FaturamentoAcumulado(grupo),
         preco_medio |-> FDiv(SomaPreco(grupo), Len(grupo)),
         vendas |-> [k \in 1..Len(grupo) |->
                        [id |-> grupo[k].id, preco |-> grupo[k].preco,
                         quantidade |-> grupo[k].quantidade,
                         data |-> grupo[k].data_venda]]]

\* what analisar_vendas_por_produto returns for 'not vendas' and from its
\* except clause; the empty dict is the function of empty domain
PorProdutoVazio == [produtos |-> <<>>, total_produtos |-> 0]

\* AnaliseService.analisar_vendas_por_produto over the list read
analisar_vendas_por_produto(vendas) ==
    IF vendas = <<>> THEN PorProdutoVazio
    ELSE LET nomes == NomesDistintos(vendas)
         IN  [produtos |-> [nome \in {nomes[k] : k \in 1..Len(nomes)} |->
                               ProdutoAgrupado(vendas, nome)],
              total_produtos |-> Len(nomes)]

\* AnaliseService.analisar_vendas_por_produto: reads the table; any
\* exception is logged and the empty result returned
AnalisarVendasPorProduto(falha) ==
    /\ ret = Idle
    /\ UNCHANGED <<db, clock>>
    /\ ret' = Result("analisar_vendas_por_produto", [falha |-> falha],
                     NoExc, MsgOk,
                     IF falha THEN PorProdutoVazio
                     ELSE analisar_vendas_por_produto(listar_todas(db)))

ChamarAnalisarVendasPorProduto ==
    /\ ret = Idle
    /\ \E falha \in BOOLEAN : AnalisarVendasPorProduto(falha)

\* mutant: of the keys of the largest quantity, the last one is taken
ProdutoMaisVendidoUltimo(vendas) ==
    LET nomes == NomesDistintos(vendas)
        quantidade(k) == SomaQuantidade(VendasDoProduto(vendas, nomes[k]))
        m == CHOOSE k \in 1..Len(nomes) :
                /\ \A j \in 1..Len(nomes) : quantidade(j) <= quantidade(k)
                /\ \A j \in (k + 1)..Len(nomes) : quantidade(j) < quantidade(k)
    IN  [nome |-> nomes[m], quantidade |-> quantidade(m)]

\* max(produtos_agrupados.items(), key = quantidade): the first key, in the
\* order of the dict, whose quantity no other key exceeds
ProdutoMaisVendido(vendas) ==
    LET nomes == NomesDistintos(vendas)
        quantidade(k) == SomaQuantidade(VendasDoProduto(vendas, nomes[k]))
        m == CHOOSE k \in 1..Len(nomes) :
                /\ \A j \in 1..Len(nomes) : quantidade(j) <= quantidade(k)
                /\ \A j \in 1..(k - 1) : quantidade(j) < quantidade(k)
    IN  [nome |-> nomes[m], quantidade |-> quantidade(m)]

\* max(produtos_agrupados.items(), key = faturamento): the first key, in
\* the order of the dict, whose revenue no other key exceeds
ProdutoMaiorFaturamento(vendas) ==
    LET nomes == NomesDistintos(vendas)
        faturamento(k) ==
            FaturamentoAcumulado(VendasDoProduto(vendas, nomes[k]))
        m == CHOOSE k \in 1..Len(nomes) :
                /\ \A j \in 1..Len(nomes) : ~FLess(faturamento(k), faturamento(j))
                /\ \A j \in 1..(k - 1) : FLess(faturamento(j), faturamento(k))
    IN  [nome |-> nomes[m], faturamento |-> faturamento(m)]

\* what obter_estatisticas_gerais returns for 'not vendas'
EstatisticasGeraisVazio ==
    [total_vendas |-> 0, faturamento_total |-> FZero, quantidade_total |-> 0,
     preco_medio |-> FZero, quantidade_media |-> FZero,
     produto_mais_vendido |-> None, produto_maior_faturamento |-> None]

\* the empty dict returned by the except clauses of
\* obter_estatisticas_gerais and buscar_tendencias
DictVazio == <<>>

\* AnaliseService.obter_estatisticas_gerais over the list read
obter_estatisticas_gerais(vendas) ==
    IF vendas = <<>> THEN EstatisticasGeraisVazio
    ELSE [total_vendas |-> Len(vendas),
          faturamento_total |-> SomaFaturamento(vendas),
          quantidade_total |-> SomaQuantidade(vendas),
          preco_medio |-> FDiv(SomaPreco(vendas), Len(vendas)),
          quantidade_media |-> FDiv(FInt(SomaQuantidade(vendas)), Len(vendas)),
          produto_mais_vendido |-> ProdutoMaisVendido(vendas),
          produto_maior_faturamento |-> ProdutoMaiorFaturamento(vendas)]

\* AnaliseService.obter_estatisticas_gerais: reads the table; any exception
\* is logged and {} returned
ObterEstatisticasGerais(falha) ==
    /\ ret = Idle
    /\ UNCHANGED <<db, clock>>
    /\ ret' = Result("obter_estatisticas_gerais", [falha |-> falha],
                     NoExc, MsgOk,
                     IF falha THEN DictVazio
                     ELSE obter_estatisticas_gerais(listar_todas(db)))

ChamarObterEstatisticasGerais ==
    /\ ret = Idle
    /\ \E falha \in BOOLEAN : ObterEstatisticasGerais(falha)

RECURSIVE InsertAscSemEmpate(_, _)
\* mutant: a row is placed before the rows of the same data_venda
InsertAscSemEmpate(r, lst) ==
    IF lst = <<>> THEN <<r>>
    ELSE IF lst[Len(lst)].data_venda < r.data_venda
         THEN Append(lst, r)
         ELSE Append(InsertAscSemEmpate(r, Front(lst)), lst[Len(lst)])

RECURSIVE InsertAsc(_, _)
\* place row r, which follows the rows of lst in the list being sorted, in
\* lst ordered by data_venda ascending: after the rows not newer than it
InsertAsc(r, lst) ==
    IF lst = <<>> THEN <<r>>
    ELSE IF lst[Len(lst)].data_venda <= r.data_venda
         THEN Append(lst, r)
         ELSE Append(InsertAsc(r, Front(lst)), lst[Len(lst)])

RECURSIVE OrdenarPorData(_)
\* sorted(vendas, key = data_venda): ascending and stable
OrdenarPorData(vendas) ==
    IF vendas = <<>> THEN <<>>
    ELSE InsertAsc(vendas[Len(vendas)], OrdenarPorData(Front(vendas)))

\* 'crescente' if ultimo > primeiro else 'decrescente' if ultimo < primeiro
\* else 'estavel', over floats
TendenciaPreco(ultimo, primeiro) ==
    IF FLess(primeiro, ultimo) THEN "crescente"
    ELSE IF FLess(ultimo, primeiro) THEN "decrescente" ELSE "estavel"

\* the same over ints
TendenciaQuantidade(ultimo, primeiro) ==
    IF ultimo > primeiro THEN "crescente"
    ELSE IF ultimo < primeiro THEN "decrescente" ELSE "estavel"

\* ((final - inicial) / inicial) * 100 when inicial > 0, else 0.0; the
\* quotient is kept as its two operands
CrescimentoFaturamento(faturamento_final, faturamento_inicial) ==
    IF FLess(FZero, faturamento_inicial)
    THEN [final |-> faturamento_final, inicial |-> faturamento_inicial]
    ELSE FZero

\* what buscar_tendencias returns for len(vendas) < 2
TendenciasInsuficiente ==
    [tendencia_preco |-> "insuficiente_dados",
     tendencia_quantidade |-> "insuficiente_dados",
     crescimento_faturamento |-> FZero]

\* mutant: a single sale is enough for a comparison
buscar_tendencias_uma_venda(vendas) ==
    IF Len(vendas) < 1 THEN TendenciasInsuficiente
    ELSE LET vendas_ordenadas == OrdenarPorData(vendas)
             primeira == vendas_ordenadas[1]
             ultima == vendas_ordenadas[Len(vendas_ordenadas)]
         IN  [tendencia_preco |->
                  TendenciaPreco(Float(ultima.preco), Float(primeira.preco)),
              tendencia_quantidade |->
                  TendenciaQuantidade(ultima.quantidade, primeira.quantidade),
              crescimento_faturamento |->
                  CrescimentoFaturamento(calcular_faturamento(ultima),
                                         calcular_faturamento(primeira)),
              periodo_analisado |-> [inicio |-> primeira.data_venda,
                                     fim |-> ultima.data_venda]]

\* AnaliseService.buscar_tendencias over the list read
buscar_tendencias(vendas) ==
    IF Len(vendas) < 2 THEN TendenciasInsuficiente
    ELSE LET vendas_ordenadas == OrdenarPorData(vendas)
             primeira == vendas_ordenadas[1]
             ultima == vendas_ordenadas[Len(vendas_ordenadas)]
         IN  [tendencia_preco |->
                  TendenciaPreco(Float(ultima.preco), Float(primeira.preco)),
              tendencia_quantidade |->
                  TendenciaQuantidade(ultima.quantidade, primeira.quantidade),
              crescimento_faturamento |->
                  CrescimentoFaturamento(calcular_faturamento(ultima),
                                         calcular_faturamento(primeira)),
              periodo_analisado |-> [inicio |-> primeira.data_venda,
                                     fim |-> ultima.data_venda]]

\* AnaliseService.buscar_tendencias: reads the table; any exception is
\* logged and {} returned
BuscarTendencias(falha) ==
    /\ ret = Idle
    /\ UNCHANGED <<db, clock>>
    /\ ret' = Result("buscar_tendencias", [falha |-> falha], NoExc, MsgOk,
                     IF falha THEN DictVazio
                     ELSE buscar_tendencias(listar_todas(db)))

ChamarBuscarTendencias ==
    /\ ret = Idle
    /\ \E falha \in BOOLEAN : BuscarTendencias(falha)

\* the analyses start on a table already filled
InitAnalise ==
    /\ deletados = {}
    /\ contextos = <<>>
    /\ abertas = {}
    /\ db \in Tabelas
    /\ clock = MaxClock
    /\ ret = Idle

NextAnalise ==
    \/ Return /\ Registrar(FALSE)
    \/ ChamarCalcularFaturamentoTotal /\ Registrar(FALSE)
    \/ ChamarAnalisarProdutosBaixoCusto /\ Registrar(FALSE)
    \/ ChamarAnalisarVendasAcimaDaMedia /\ Registrar(FALSE)
    \/ ChamarAnalisarVendasPorProduto /\ Registrar(FALSE)
    \/ ChamarObterEstatisticasGerais /\ Registrar(FALSE)
    \/ ChamarBuscarTendencias /\ Registrar(FALSE)

SpecAnalise == InitAnalise /\ [][NextAnalise]_vars

(* ------------------------- the large quantities ------------------------ *)

\* quantidade is an Integer column and criar_venda asks only for
\* quantidade > 0: a quantity of 2^53 + k, as an integer in base 2^24
Grande(k) == <<k, 0, Pow2(5), 0>>

QuantidadesGrandes == {Grande(k) : k \in 0..3}

\* the tables of at most MaxVendas sales of such quantities
TabelasGrandes ==
    UNION { { [i \in 1..n |-> Row(i, <<"a">>, 1990, q[i], 0, None)] :
                q \in [1..n -> QuantidadesGrandes] } :
            n \in 0..MaxVendas }

RECURSIVE SomaQuantidadeGrande(_)
\* sum(v.quantidade for v in vendas) over Python ints: exact
SomaQuantidadeGrande(vendas) ==
    IF vendas = <<>> THEN <<0, 0, 0, 0>>
    ELSE LET total == SomaQuantidadeGrande(Front(vendas))
         IN  Carry([i \in 1..4 |-> total[i] + vendas[Len(vendas)].quantidade[i]])

\* analisar_vendas_acima_da_media over sales of such quantities:
\* total_quantidade / len(vendas) is the exact quotient rounded to a float,
\* and venda.quantidade > quantidade_media compares the int with the float
\* exactly; the items are given by id and quantidade
AcimaDaMediaGrandes(vendas) ==
    IF vendas = <<>> THEN AcimaDaMediaVazio
    ELSE LET total_quantidade == SomaQuantidadeGrande(vendas)
             quantidade_media == FDiv(total_quantidade, Len(vendas))
             Acima(v) == FLess(quantidade_media, v.quantidade)
             acima == SelectSeq(vendas, Acima)
         IN  [quantidade_media |-> quantidade_media,
              itens_acima_media |->
                  [k \in 1..Len(acima) |->
                      [id |-> acima[k].id, quantidade |-> acima[k].quantidade]],
              total_itens_acima_media |-> Len(acima),
              total_vendas |-> Len(vendas)]

AnalisarVendasAcimaDaMediaGrandes(falha) ==
    /\ ret = Idle
    /\ UNCHANGED <<db, clock>>
    /\ ret' = Result("analisar_vendas_acima_da_media", [falha |-> falha],
                     NoExc, MsgOk,
                     IF falha THEN AcimaDaMediaErro
                     ELSE AcimaDaMediaGrandes(listar_todas(db)))

ChamarAnalisarVendasAcimaDaMediaGrandes ==
    /\ ret = Idle
    /\ \E falha \in BOOLEAN : AnalisarVendasAcimaDaMediaGrandes(falha)

InitGrandes ==
    /\ deletados = {}
    /\ contextos = <<>>
    /\ abertas = {}
    /\ db \in TabelasGrandes
    /\ clock = 0
    /\ ret = Idle

NextGrandes ==
    \/ Return /\ Registrar(FALSE)
    \/ ChamarAnalisarVendasAcimaDaMediaGrandes /\ Registrar(FALSE)

SpecGrandes == InitGrandes /\ [][NextGrandes]_vars

(* ------------------------------ the report ---------------------------- *)

\* the report under way: the computations done so far (passo), the calls of
\* Venda.listar_todas made for it (leituras) and the summaries obtained
Relatorio(passo, estatisticas, faturamento, baixo_custo, acima_media) ==
    Result("gerar_relatorio", [passo |-> passo, leituras |-> passo], NoExc,
           MsgOk,
           [estatisticas |-> estatisticas, faturamento |-> faturamento,
            baixo_custo |-> baixo_custo, acima_media |-> acima_media])

\* gerar_relatorio, first call: venda_service.obter_estatisticas(), which
\* reads the table through listar_todas (an empty list if the read fails)
GerarRelatorioEstatisticas(falha) ==
    /\ ret = Idle
    /\ UNCHANGED <<db, clock>>
    /\ ret' = Relatorio(1,
                  obter_estatisticas(IF falha THEN <<>> ELSE listar_todas(db)),
                  None, None, None)

\* gerar_relatorio, second call: analise_service.calcular_faturamento_total(),
\* which reads the table again
GerarRelatorioFaturamento(falha) ==
    /\ ret.op = "gerar_relatorio"
    /\ ret.args.passo = 1
    /\ UNCHANGED <<db, clock>>
    /\ ret' = Relatorio(2, ret.val.estatisticas,
                  IF falha
                  THEN [faturamento_total |-> FZero, itens |-> <<>>,
                        total_itens |-> 0]
                  ELSE calcular_faturamento_total(listar_todas(db)),
                  None, None)

\* gerar_relatorio, third call: analise_service.analisar_produtos_baixo_custo()
\* with the default limit of 20.0, which reads the table again
GerarRelatorioBaixoCusto(falha) ==
    /\ ret.op = "gerar_relatorio"
    /\ ret.args.passo = 2
    /\ UNCHANGED <<db, clock>>
    /\ ret' = Relatorio(3, ret.val.estatisticas, ret.val.faturamento,
                  IF falha
                  THEN [limite_preco |-> 2000, produtos |-> <<>>,
                        total_produtos |-> 0, faturamento_total |-> FZero]
                  ELSE analisar_produtos_baixo_custo(listar_todas(db), 2000),
                  None)

\* gerar_relatorio, fourth call:
\* analise_service.analisar_vendas_acima_da_media(), which reads the table
\* again; the summaries then go to RelatorioService
GerarRelatorioAcimaMedia(falha) ==
    /\ ret.op = "gerar_relatorio"
    /\ ret.args.passo = 3
    /\ UNCHANGED <<db, clock>>
    /\ ret' = Relatorio(4, ret.val.estatisticas, ret.val.faturamento,
                  ret.val.baixo_custo,
                  IF falha THEN AcimaDaMediaErro
                  ELSE analisar_vendas_acima_da_media(listar_todas(db)))

ChamarGerarRelatorio ==
    \E falha \in BOOLEAN :
        \/ GerarRelatorioEstatisticas(falha)
        \/ GerarRelatorioFaturamento(falha)
        \/ GerarRelatorioBaixoCusto(falha)
        \/ GerarRelatorioAcimaMedia(falha)

\* gerar_relatorio has made its four calls and returns
ConcluirRelatorio ==
    /\ ret.op = "gerar_relatorio"
    /\ ret.args.passo = 4
    /\ ret' = Idle
    /\ UNCHANGED <<db, clock>>

\* another process commits a sale to the same database file, as
\* salvar_no_novo_banco does: session.add and session.commit
GravarPorOutroProcesso ==
    /\ Cardinality(DOMAIN db) < MaxVendas
    /\ \E c \in Catalogo :
          db' = Insert(db, Row(NextId(db), c.nome, c.preco, c.quantidade,
                               clock, None))
    /\ UNCHANGED <<clock, ret>>

NextRelatorio ==
    \/ ChamarGerarRelatorio /\ Registrar(FALSE)
    \/ ConcluirRelatorio /\ Registrar(FALSE)
    \/ GravarPorOutroProcesso /\ Registrar(FALSE)

SpecRelatorio == InitAnalise /\ [][NextRelatorio]_vars

(* ---------------------------- the validator --------------------------- *)

\* VendaService.validar_dados_venda: the list of the errors found, the name
\* first, then the price, then the quantity
validar_dados_venda(nome, preco, quantidade) ==
    (IF nome = <<>> \/ strip(nome) = <<>> THEN <<MsgNomeObrigatorio>>
     ELSE IF Len(strip(nome)) > MaxNomeLen THEN <<MsgNomeMax>>
     ELSE <<>>)
    \o (IF preco <= 0 THEN <<MsgPreco>> ELSE <<>>)
    \o (IF quantidade <= 0 THEN <<MsgQuantidade>> ELSE <<>>)

ValidarDadosVenda(nome, preco, quantidade) ==
    /\ ret = Idle
    /\ UNCHANGED <<db, clock>>
    /\ ret' = Result("validar_dados_venda",
                     [nome |-> nome, preco |-> preco, quantidade |-> quantidade],
                     NoExc, MsgOk, validar_dados_venda(nome, preco, quantidade))

ChamarValidarDadosVenda ==
    /\ ret = Idle
    /\ \E nome \in Nomes, preco \in Precos, quantidade \in Quantidades :
          ValidarDadosVenda(nome, preco, quantidade)

\* the data of a sale is validated, or the sale is created
NextValidacao ==
    \/ Tick /\ Registrar(FALSE)
    \/ Return /\ Registrar(FALSE)
    \/ ChamarValidarDadosVenda /\ Registrar(FALSE)
    \/ ChamarCriarVenda /\ Registrar(FALSE)

SpecValidacao == Init /\ [][NextValidacao]_vars

(* ----------------------------- the sessions --------------------------- *)

\* the deepest nesting of service contexts in a handler: gerar_relatorio
\* enters VendaService inside AnaliseService, and nova_venda,
\* editar_venda_por_id and remover_venda call load_data, which enters
\* VendaService, inside their own VendaService context
MaxContextos == 2

\* get_db_session(): a new session, not one of those still open
NovaSessao(sessoes) ==
    CHOOSE s \in 1..(Cardinality(sessoes) + 1) : s \notin sessoes

\* a context of the service is active
Ativo(servico) == \E k \in DOMAIN contextos : contextos[k].servico = servico

\* __enter__ of VendaService and of AnaliseService: self.session =
\* get_db_session(); AnaliseService is entered by a handler first
Entrar(servico) ==
    /\ ret = Idle
    /\ Len(contextos) < MaxContextos
    /\ servico = "AnaliseService" => contextos = <<>>
    /\ contextos' = Append(contextos, [servico |-> servico,
                                       session |-> NovaSessao(abertas)])
    /\ abertas' = abertas \cup {NovaSessao(abertas)}
    /\ UNCHANGED <<db, clock, ret, deletados>>

ChamarEntrar == \E servico \in {"VendaService", "AnaliseService"} : Entrar(servico)

\* mutant: the session is closed only when the block ends without exception
FecharSemErro(sessoes, session, exc_type) ==
    IF exc_type = NoExc THEN sessoes \ {session} ELSE sessoes

\* __exit__(exc_type, exc_val, exc_tb): if self.session: self.session.close()
Fechar(sessoes, session, exc_type) == sessoes \ {session}

\* the with block of the innermost context is left: at its end or by a
\* return, when no call is pending, or by the exception a call has raised
Sair ==
    /\ contextos # <<>>
    /\ ret = Idle \/ ret.exc # NoExc
    /\ abertas' = Fechar(abertas, contextos[Len(contextos)].session, ret.exc)
    /\ contextos' = Front(contextos)
    /\ UNCHANGED <<db, clock, ret, deletados>>

\* except Exception of the handler, outside every with block: the error is
\* logged and shown
Tratar ==
    /\ contextos = <<>>
    /\ ret # Idle
    /\ ret.exc # NoExc
    /\ ret' = Idle
    /\ UNCHANGED <<db, clock, deletados, contextos, abertas>>

\* the call has returned a value to the body of the with block
Retornar ==
    /\ ret.exc = NoExc
    /\ Return

\* the handlers of the window: the methods of a service are called inside a
\* context of that service
NextSessao ==
    \/ ChamarEntrar
    \/ Sair
    \/ Tratar
    \/ Tick /\ Registrar(FALSE)
    \/ Retornar /\ Registrar(FALSE)
    \/ Ativo("VendaService") /\ ChamarCriarVenda /\ Registrar(FALSE)
    \/ Ativo("VendaService") /\ ChamarBuscarVenda /\ Registrar(FALSE)
    \/ Ativo("VendaService") /\ ChamarAtualizarVenda /\ Registrar(FALSE)
    \/ Ativo("VendaService") /\ ChamarDeletarVenda /\ Registrar(FALSE)
    \/ Ativo("VendaService") /\ ChamarListarTodas /\ Registrar(FALSE)
    \/ Ativo("AnaliseService") /\ ChamarCalcularFaturamentoTotal /\ Registrar(FALSE)

SpecSessao == Init /\ [][NextSessao]_vars

(* ---------------------------- the migration ---------------------------- *)

\* a row of the legacy table vendas (SELECT id, nome, preco, quantidade)
LinhaAntiga(i, nome, preco, quantidade) ==
    [id |-> i, nome |-> nome, preco |-> preco, quantidade |-> quantidade]

\* vendas.db of the old system: None when the file or its table vendas is
\* absent, else the rows of the table (their ids are those of the old system)
SqliteAntigos ==
    { None,
      Some(<<>>),
      Some(<<LinhaAntiga(7, <<"a">>, 1990, 1)>>),
      Some(<<LinhaAntiga(7, <<"a">>, 1990, 1), LinhaAntiga(9, <<"b">>, 2000, 3)>>) }

\* vendas.json of the old system: None when the file is absent or holds no
\* list, else the items of the list
JsonAntigos ==
    { None,
      Some(<<>>),
      Some(<<[nome |-> <<"b">>, preco |-> 2990, quantidade |-> 2]>>) }

\* the note written on a migrated sale
ObsMigradoSqlite == Some(<<"s">>)

ObsMigradoJson == Some(<<"j">>)

\* verificar_dados_antigos: which legacy stores are there
verificar_dados_antigos(sqlite, json) ==
    [sqlite_antigo |-> sqlite # None, json_antigo |-> json # None]

\* migrar_do_sqlite_antigo: one dict per legacy row, with the keys id, nome,
\* preco, quantidade, data_venda and observacoes; a failure of the read is
\* logged and the list is empty
migrar_do_sqlite_antigo(sqlite, agora, falha) ==
    IF falha \/ sqlite = None
    THEN <<>>
    ELSE [k \in 1..Len(sqlite[1]) |->
            [id |-> sqlite[1][k].id, nome |-> sqlite[1][k].nome,
             preco |-> sqlite[1][k].preco,
             quantidade |-> sqlite[1][k].quantidade,
             data_venda |-> agora, observacoes |-> ObsMigradoSqlite]]

\* migrar_do_json_antigo: one dict per item, with the keys nome, preco,
\* quantidade, data_venda and observacoes
migrar_do_json_antigo(json, agora, falha) ==
    IF falha \/ json = None
    THEN <<>>
    ELSE [k \in 1..Len(json[1]) |->
            [nome |-> json[1][k].nome, preco |-> json[1][k].preco,
             quantidade |-> json[1][k].quantidade,
             data_venda |-> agora, observacoes |-> ObsMigradoJson]]

\* del venda_data['id']
SemId(venda_data) == [k \in DOMAIN venda_data \ {"id"} |-> venda_data[k]]

\* the parameters of Venda.__init__, and those without a default
ParametrosVenda == {"nome", "preco", "quantidade", "observacoes", "id"}

ObrigatoriosVenda == {"nome", "preco", "quantidade"}

\* Venda(**venda_data): None stands for the TypeError of a keyword that
\* __init__ does not take, or of a missing positional argument; otherwise
\* the instance, with the id left to the table and data_venda to the
\* column default
Venda_init(d, venda_data, agora) ==
    IF /\ DOMAIN venda_data \subseteq ParametrosVenda
       /\ ObrigatoriosVenda \subseteq DOMAIN venda_data
    THEN Some(Row(NextId(d), venda_data.nome, venda_data.preco,
                  venda_data.quantidade, agora,
                  IF "observacoes" \in DOMAIN venda_data
                  THEN venda_data.observacoes ELSE None))
    ELSE None

\* the loop of salvar_no_novo_banco: the sales added to the session, or None
\* when a constructor raised
RECURSIVE AdicionarVendas(_, _, _)
AdicionarVendas(pending, vendas, agora) ==
    IF vendas = <<>>
    THEN Some(pending)
    ELSE LET venda == Venda_init(pending, SemId(Head(vendas)), agora)
         IN  IF venda = None
             THEN None
             ELSE AdicionarVendas(Insert(pending, venda[1]), Tail(vendas), agora)

\* salvar_no_novo_banco: every exception is caught and False returned; the
\* session is dropped with what it held, nothing of it reaches the table
salvar_no_novo_banco(d, vendas, agora, falha) ==
    LET pending == AdicionarVendas(d, vendas, agora)
    IN  IF pending = None \/ falha
        THEN [val |-> FALSE, db |-> d]
        ELSE [val |-> TRUE, db |-> Commit(d, pending[1])]

\* executar_migracao: the value returned and the table afterwards
executar_migracao(d, sqlite, json, agora, falha_init, falha_leitura, falha_escrita) ==
    LET info == verificar_dados_antigos(sqlite, json)
        vendas_sqlite == IF info.sqlite_antigo
                         THEN migrar_do_sqlite_antigo(sqlite, agora, falha_leitura)
                         ELSE <<>>
        vendas_json == IF info.json_antigo
                       THEN migrar_do_json_antigo(json, agora, falha_leitura)
                       ELSE <<>>
        vendas_migradas == vendas_sqlite \o vendas_json
    IN  IF ~info.sqlite_antigo /\ ~info.json_antigo
        THEN [val |-> FALSE, db |-> d]
        ELSE IF falha_init
        THEN [val |-> FALSE, db |-> d]
        ELSE IF vendas_migradas # <<>>
        THEN salvar_no_novo_banco(d, vendas_migradas, agora, falha_escrita)
        ELSE [val |-> FALSE, db |-> d]

ExecutarMigracao(sqlite, json, falha_init, falha_leitura, falha_escrita) ==
    LET r == executar_migracao(db, sqlite, json, clock,
                               falha_init, falha_leitura, falha_escrita)
    IN  /\ ret = Idle
        /\ UNCHANGED clock
        /\ db' = r.db
        /\ ret' = Result("executar_migracao",
                         [sqlite |-> sqlite, json |-> json,
                          falha_init |-> falha_init,
                          falha_leitura |-> falha_leitura,
                          falha_escrita |-> falha_escrita],
                         NoExc, MsgOk, r.val)

ChamarExecutarMigracao ==
    /\ ret = Idle
    /\ \E sqlite \in SqliteAntigos, json \in JsonAntigos,
          falha_init \in BOOLEAN, falha_leitura \in BOOLEAN,
          falha_escrita \in BOOLEAN :
          ExecutarMigracao(sqlite, json, falha_init, falha_leitura, falha_escrita)

\* the new system is in use (sales are created) and the migration script is
\* run against it
NextMigracao ==
    \/ Tick /\ Registrar(FALSE)
    \/ Return /\ Registrar(FALSE)
    \/ ChamarCriarVenda /\ Registrar(FALSE)
    \/ ChamarExecutarMigracao /\ Registrar(FALSE)

SpecMigracao == Init /\ [][NextMigracao]_vars

(* ------------------------------- claims -------------------------------- *)

\* every character of s is whitespace (the empty text included)
Blank(s) == \A k \in 1..Len(s) : s[k] \in Whitespace

CallOf(op) == ret.op = op

\* the step is a call of op: the call starts from Idle and ends in its result
StepOf(op) == ret = Idle /\ ret'.op = op

\* C1: after any sequence of create, update and delete calls from the empty
\* table, every stored row has a non-empty name of at most 100 characters,
\* a price above zero and a quantity above zero.
C1_StoredRowsValid ==
    \A i \in DOMAIN db :
        /\ db[i].nome # <<>>
        /\ Len(db[i].nome) <= MaxNomeLen
        /\ db[i].preco > 0
        /\ db[i].quantidade > 0

\* a row was created, another deleted, and an update has just succeeded on a
\* table that holds a name of exactly 100 characters
C1_Witness ==
    /\ CallOf("atualizar_venda") /\ ret.exc = NoExc
    /\ 1 \notin DOMAIN db
    /\ \E i \in DOMAIN db : Len(db[i].nome) = MaxNomeLen

\* C2 as stated: whenever create has accepted an input (names that carry
\* leading or trailing whitespace included), get on the returned id yields
\* exactly the name, price and quantity passed to create.
C2_ExactRoundTrip ==
    (CallOf("criar_venda") /\ ret.exc = NoExc)
    => LET got == buscar_venda(db, ret.val[1].id, FALSE)
       IN  /\ got # None
           /\ got[1].nome = ret.args.nome
           /\ got[1].preco = ret.args.preco
           /\ got[1].quantidade = ret.args.quantidade

\* C2 amended: for every input whose name is not blank and at most 100
\* characters long, with price > 0 and quantity > 0 (no storage failure),
\* create succeeds and get on the returned id yields the name passed with its
\* surrounding whitespace removed, and exactly the price and quantity passed.
C2_TrimmedRoundTrip ==
    (/\ CallOf("criar_venda") /\ ~ret.args.falha
     /\ ~Blank(ret.args.nome) /\ Len(ret.args.nome) <= MaxNomeLen
     /\ ret.args.preco > 0 /\ ret.args.quantidade > 0)
    => /\ ret.exc = NoExc
       /\ LET got == buscar_venda(db, ret.val[1].id, FALSE)
              nome == ret.args.nome
              keep == {k \in 1..Len(nome) : nome[k] \notin Whitespace}
          IN  /\ got # None
              /\ got[1].nome = SubSeq(nome, SetMin(keep), SetMax(keep))
              /\ got[1].preco = ret.args.preco
              /\ got[1].quantidade = ret.args.quantidade

\* a name passed with surrounding whitespace has been created next to another
\* row
C2_Witness ==
    /\ CallOf("criar_venda") /\ ret.exc = NoExc
    /\ ret.args.nome = <<" ", "b", " ">>
    /\ Cardinality(DOMAIN db) = 2

\* what the rules of create reject: price or quantity not above zero, a blank
\* or empty name, a name of more than 100 characters
C3_Invalid(a) ==
    \/ a.preco <= 0
    \/ a.quantidade <= 0
    \/ Blank(a.nome)
    \/ Len(a.nome) > MaxNomeLen

\* C3: create fails with the validation error whenever the price or the
\* quantity is not above zero or the name is empty, blank or longer than 100
\* characters, and the table is then exactly as it was.
C3_InvalidCreateRejected ==
    [][ (StepOf("criar_venda") /\ C3_Invalid(ret'.args))
        => (ret'.exc = ValueError /\ ret'.val = None /\ db' = db) ]_vars

\* a create with a blank name was rejected while the table holds a row
C3_Witness ==
    /\ CallOf("criar_venda") /\ ret.exc = ValueError
    /\ ret.args.nome = <<" ">>
    /\ DOMAIN db # {}

\* the rules of the specification, in its order, on the trimmed name
C4_Rules(a) ==
    << Blank(a.nome), Len(strip(a.nome)) > MaxNomeLen, a.preco <= 0,
       a.quantidade <= 0 >>

C4_Messages == << MsgNomeObrigatorio, MsgNomeMax, MsgPreco, MsgQuantidade >>

\* C4: when the input of create breaks more than one rule, the failure
\* reported is that of the first broken rule in the order (1) blank name,
\* (2) name longer than 100, (3) price, (4) quantity.
C4_FirstRuleInSpecOrder ==
    LET rules == C4_Rules(ret.args)
        broken == {k \in 1..4 : rules[k]}
    IN  (CallOf("criar_venda") /\ Cardinality(broken) > 1)
        => (ret.exc = ValueError /\ ret.msg = C4_Messages[SetMin(broken)])

\* C5: the limit of 100 characters is applied to the trimmed name, in create
\* and in update: a name is rejected for its length only when its trimmed
\* length is above 100.
C5_LimitOnTrimmedName ==
    /\ (CallOf("criar_venda") /\ ret.exc = ValueError /\ ret.msg = MsgNomeMax)
       => Len(strip(ret.args.nome)) > MaxNomeLen
    /\ (CallOf("atualizar_venda") /\ ret.exc = ValueError /\ ret.msg = MsgNomeEntre)
       => (Blank(ret.args.nome[1]) \/ Len(strip(ret.args.nome[1])) > MaxNomeLen)

\* C6: a successful update changes only the fields supplied: a field passed
\* as None keeps its value, id and data_venda stay, every other row stays.
C6_UpdateFrame ==
    [][ (StepOf("atualizar_venda") /\ ret'.exc = NoExc)
        => LET a == ret'.args
               i == a.venda_id
           IN  /\ DOMAIN db' = DOMAIN db
               /\ i \in DOMAIN db
               /\ \A j \in DOMAIN db \ {i} : db'[j] = db[j]
               /\ db'[i].id = db[i].id
               /\ db'[i].data_venda = db[i].data_venda
               /\ (a.nome = None => db'[i].nome = db[i].nome)
               /\ (a.preco = None => db'[i].preco = db[i].preco)
               /\ (a.quantidade = None => db'[i].quantidade = db[i].quantidade)
               /\ (a.observacoes = None
                      => db'[i].observacoes = db[i].observacoes) ]_vars

\* an update that supplied a name and no observations has succeeded on a row
\* that carries observations, next to another row, later than its creation
C6_Witness ==
    /\ CallOf("atualizar_venda") /\ ret.exc = NoExc
    /\ ret.args.nome # None /\ ret.args.observacoes = None
    /\ Cardinality(DOMAIN db) = 2
    /\ db[ret.args.venda_id].observacoes # None
    /\ db[ret.args.venda_id].data_venda < clock

\* C7: an update that fails, for an invalid field among several supplied or
\* for a commit that fails, changes nothing in the table.
C7_FailedUpdateChangesNothing ==
    [][ (StepOf("atualizar_venda") /\ ret'.exc # NoExc) => db' = db ]_vars

\* an update that supplied a new valid name together with an invalid price
\* has failed, and so has one whose commit failed
C7_Witness ==
    /\ CallOf("atualizar_venda")
    /\ ret.args.venda_id \in DOMAIN db
    /\ ret.args.nome = Some(<<" ", "b", " ">>)
    /\ db[ret.args.venda_id].nome = Nome100
    /\ \/ ret.exc = ValueError /\ ret.args.preco = Some(0)
       \/ ret.exc = SQLAlchemyError /\ ret.args.preco = Some(20)

\* C8: when update succeeds, every field supplied (not None, the empty text
\* for the observations included) takes effect: the row then holds the value
\* supplied (for a text, with its surrounding whitespace removed).
C8_SuppliedFieldsTakeEffect ==
    (CallOf("atualizar_venda") /\ ret.exc = NoExc)
    => LET a == ret.args
           r == db[a.venda_id]
       IN  /\ (a.nome # None => r.nome = strip(a.nome[1]))
           /\ (a.preco # None => r.preco = a.preco[1])
           /\ (a.quantidade # None => r.quantidade = a.quantidade[1])
           /\ (a.observacoes # None
                  => r.observacoes = Some(strip(a.observacoes[1])))

\* C9: update and delete called with an id that is not in the table fail
\* with the not-found error and leave the table as it was.
C9_AbsentIdNotFound ==
    [][ ((StepOf("atualizar_venda") \/ StepOf("deletar_venda"))
         /\ ret'.args.venda_id \notin DOMAIN db)
        => (/\ ret'.exc = ValueError
            /\ ret'.msg = MsgNaoEncontrada
            /\ db' = db) ]_vars

\* a delete of an absent id has failed on a table that holds a row
C9_Witness ==
    /\ CallOf("deletar_venda") /\ ret.exc = ValueError
    /\ ret.args.falha = ""
    /\ ret.args.venda_id \notin DOMAIN db
    /\ DOMAIN db # {}

\* C10: deletion is permanent: once delete(id) has succeeded, get(id) returns
\* absent and listAll, searchByName and statistics leave the record out, in
\* every later state, whatever creates, updates and deletes follow.
C10_DeletedIdStaysAbsent ==
    \A i \in deletados :
        /\ buscar_venda(db, i, FALSE) = None
        /\ \A k \in 1..Len(listar_todas(db)) : listar_todas(db)[k].id # i
        /\ \A k \in 1..Len(buscar_por_nome(db, <<>>)) :
               buscar_por_nome(db, <<>>)[k].id # i
        /\ obter_estatisticas(listar_todas(db)).total_vendas
               = Cardinality(DOMAIN db \ {i})

\* the store failed while the call in ret was running: the call reached the
\* storage access on which the failure was injected
StoreFailed(r) ==
    \/ r.op \in {"buscar_venda", "listar_todas", "buscar_por_nome",
                 "obter_estatisticas"} /\ r.args.falha
    \/ r.op = "criar_venda" /\ r.args.falha
          /\ ValidarCriar(r.args.nome, r.args.preco, r.args.quantidade) = MsgOk
    \/ r.op \in {"atualizar_venda", "deletar_venda"} /\ r.args.falha = "busca"
    \/ r.op = "atualizar_venda" /\ r.args.falha = "commit"
          /\ r.args.venda_id \in DOMAIN db
          /\ ValidarAtualizar(r.args.nome, r.args.preco, r.args.quantidade) = MsgOk
    \/ r.op = "deletar_venda" /\ r.args.falha = "commit"
          /\ r.args.venda_id \in DOMAIN db

\* C11: when the store fails during a manager call (create, get, listAll,
\* searchByName, update, delete, statistics) the caller receives the storage
\* error, so the failure never comes back as an absent record, an empty
\* list, empty statistics or a not-found error for a stored record.
C11_StoreFailureRaised ==
    (ret # Idle /\ StoreFailed(ret)) => ret.exc = SQLAlchemyError

\* the rows of a list, as a set
RowsOf(lst) == {lst[k] : k \in 1..Len(lst)}

ContainsIgnoreCase(sub, s) ==
    \E i \in 1..(Len(s) - Len(sub) + 1) :
        \A k \in 1..Len(sub) : Lower(sub[k]) = Lower(s[i + k - 1])

\* C13: for every text s, the characters % and _ included, searchByName(s)
\* returns exactly the stored rows whose name contains s as a literal
\* substring when letter case is ignored.
C13_SearchIsLiteralSubstring ==
    (CallOf("buscar_por_nome") /\ ~ret.args.falha)
    => RowsOf(ret.val)
          = {db[i] : i \in {j \in DOMAIN db :
                              ContainsIgnoreCase(ret.args.nome, db[j].nome)}}

RECURSIVE IsSubsequence(_, _)
\* a can be obtained from b by leaving rows out, the others kept in order
IsSubsequence(a, b) ==
    IF a = <<>> THEN TRUE
    ELSE IF b = <<>> THEN FALSE
    ELSE IF Head(a) = Head(b) THEN IsSubsequence(Tail(a), Tail(b))
    ELSE IsSubsequence(a, Tail(b))

\* C14: the rows searchByName returns are in the same relative order as in
\* listAll on the same table: the search result is a subsequence of the
\* listAll result.
C14_SearchInListAllOrder ==
    (CallOf("buscar_por_nome") /\ ~ret.args.falha)
    => IsSubsequence(ret.val, listar_todas(db))

RECURSIVE RevenueUpTo(_, _)
\* preco * quantidade of the first k rows of the list, added in their order
RevenueUpTo(lst, k) ==
    IF k = 0 THEN FZero
    ELSE FAdd(RevenueUpTo(lst, k - 1), FMul(Float(lst[k].preco), lst[k].quantidade))

RECURSIVE PriceUpTo(_, _)
\* preco of the first k rows of the list, added in their order
PriceUpTo(lst, k) ==
    IF k = 0 THEN FZero ELSE FAdd(PriceUpTo(lst, k - 1), Float(lst[k].preco))

RECURSIVE QuantityOf(_, _)
\* the sum of quantidade over the rows with ids in S
QuantityOf(d, S) ==
    IF S = {} THEN 0
    ELSE LET i == CHOOSE j \in S : TRUE
         IN  d[i].quantidade + QuantityOf(d, S \ {i})

\* C15: after any sequence of create, update and delete calls, statistics
\* reports the number of stored rows, the sum of preco * quantidade, the sum
\* of quantidade, the mean preco and the mean quantidade of the rows stored
\* at the time of the call (sums of floats taken in the order of listAll);
\* on the empty table the five values are zero and nothing is divided.
C15_StatisticsOfStoredRows ==
    (CallOf("obter_estatisticas") /\ ~ret.args.falha)
    => LET e == ret.val[1]
           n == Cardinality(DOMAIN db)
           l == listar_todas(db)
       IN  /\ e.total_vendas = n
           /\ e.faturamento_total = RevenueUpTo(l, n)
           /\ e.quantidade_total = QuantityOf(db, DOMAIN db)
           /\ IF n = 0
              THEN e.preco_medio = <<FZero, 1>> /\ e.quantidade_media = <<0, 1>>
              ELSE /\ e.preco_medio = <<PriceUpTo(l, n), n>>
                   /\ e.quantidade_media = <<QuantityOf(db, DOMAIN db), n>>

\* statistics has been read over two rows that differ in price and quantity
C15_Witness ==
    /\ CallOf("obter_estatisticas") /\ ~ret.args.falha
    /\ DOMAIN db = {1, 2}
    /\ db[1].preco # db[2].preco
    /\ db[1].quantidade # db[2].quantidade
    /\ ret.val[1].total_vendas = 2

\* the orders in which the elements of a list can be arranged
Reorderings(lst) ==
    { [k \in 1..Len(lst) |-> lst[f[k]]] :
        f \in {g \in [1..Len(lst) -> 1..Len(lst)] :
                 \A i \in 1..Len(lst), j \in 1..Len(lst) :
                     i # j => g[i] # g[j]} }

\* the amount nearest to the float x, in cents: (x * 100 + 1/2) cut to a
\* whole number
ToCents(x) ==
    LET h == Carry(<<x[1] * 100, x[2] * 100, (x[3] * 100) + Pow2(12),
                     x[4] * 100>>)
    IN  (h[3] \div Pow2(13)) + (h[4] * Pow2(11))

RECURSIVE ExactCents(_, _)
\* the sum of preco * quantidade over the rows with ids in S, in cents
ExactCents(d, S) ==
    IF S = {} THEN 0
    ELSE LET i == CHOOSE j \in S : TRUE
         IN  (d[i].preco * d[i].quantidade) + ExactCents(d, S \ {i})

C17_LowCostStrictlyBelowLimit ==
    (CallOf("analisar_produtos_baixo_custo") /\ ~ret.args.falha)
    => LET t == ret.args.limite_preco
           Below(v) == v.preco < t
           sel == SelectSeq(listar_todas(db), Below)
           r == ret.val
       IN  /\ r.limite_preco = t
           /\ Len(r.produtos) = Len(sel)
           /\ \A k \in 1..Len(sel) :
                 /\ r.produtos[k].id = sel[k].id
                 /\ r.produtos[k].nome = sel[k].nome
                 /\ r.produtos[k].preco = sel[k].preco
                 /\ r.produtos[k].quantidade = sel[k].quantidade
                 /\ r.produtos[k].data = sel[k].data_venda
                 /\ r.produtos[k].faturamento
                       = FMul(Float(sel[k].preco), sel[k].quantidade)
           /\ r.total_produtos = Len(sel)
           /\ r.faturamento_total = RevenueUpTo(sel, Len(sel))

\* low cost has been computed with the default limit over a snapshot that
\* holds a sale below the limit and a sale at the limit
C17_Witness ==
    /\ CallOf("analisar_produtos_baixo_custo") /\ ~ret.args.falha
    /\ ret.args.limite_preco = 2000
    /\ \E i \in DOMAIN db, j \in DOMAIN db :
          db[i].preco = 2000 /\ db[j].preco < 2000
    /\ ret.val.total_produtos >= 1
    /\ ret.val.total_produtos < Cardinality(DOMAIN db)

C19_AboveAverageEmpty ==
    (CallOf("analisar_vendas_acima_da_media") /\ ~ret.args.falha
        /\ DOMAIN db = {})
    => /\ ret.val.quantidade_media = FZero
       /\ ret.val.itens_acima_media = <<>>
       /\ ret.val.total_itens_acima_media = 0
       /\ ret.exc = NoExc
       /\ ret.val # AcimaDaMediaErro

\* above average has been computed over the empty snapshot
C19_Witness ==
    /\ CallOf("analisar_vendas_acima_da_media") /\ ~ret.args.falha
    /\ DOMAIN db = {}
    /\ ret.val.itens_acima_media = <<>>

\* the fields the result of an analysis carries
Shape(op) ==
    CASE op = "calcular_faturamento_total" ->
            {"faturamento_total", "itens", "total_itens"}
      [] op = "analisar_produtos_baixo_custo" ->
            {"limite_preco", "produtos", "total_produtos", "faturamento_total"}
      [] op = "analisar_vendas_acima_da_media" ->
            {"quantidade_media", "itens_acima_media",
             "total_itens_acima_media", "total_vendas"}
      [] op = "analisar_vendas_por_produto" -> {"produtos", "total_produtos"}
      [] op = "obter_estatisticas_gerais" ->
            {"total_vendas", "faturamento_total", "quantidade_total",
             "preco_medio", "quantidade_media", "produto_mais_vendido",
             "produto_maior_faturamento"}
      [] op = "buscar_tendencias" ->
            {"tendencia_preco", "tendencia_quantidade",
             "crescimento_faturamento", "periodo_analisado"}

Analyses ==
    {"calcular_faturamento_total", "analisar_produtos_baixo_custo",
     "analisar_vendas_acima_da_media", "analisar_vendas_por_produto",
     "obter_estatisticas_gerais", "buscar_tendencias"}

\* C20: every analysis (total revenue, low cost, above average, grouping by
\* product, general statistics, trend) returns without raising for every
\* snapshot, the empty one and the one of a single row included, and when
\* reading the rows fails; its result carries every field of its shape.
C20_AnalysisResultWellFormed ==
    ret.op \in Analyses
    => /\ ret.exc = NoExc
       /\ Shape(ret.op) \subseteq DOMAIN ret.val

\* the ids of the rows of table d named nome
IdsNamed(d, nome) == {i \in DOMAIN d : d[i].nome = nome}

\* what C21 says apart from the reorderings: the groups are the distinct
\* names, every row is among the sales of the group of its own name and of
\* no other group, once, and a group's totals are those of its rows
GroupsPartition(d, lst, r) ==
    /\ DOMAIN r.produtos = {d[i].nome : i \in DOMAIN d}
    /\ r.total_produtos = Cardinality({d[i].nome : i \in DOMAIN d})
    /\ \A i \in DOMAIN d :
          {<<nome, k>> \in UNION {{nome} \X DOMAIN r.produtos[nome].vendas :
                                     nome \in DOMAIN r.produtos} :
              r.produtos[nome].vendas[k].id = d[i].id}
          \in {{<<d[i].nome, k>>} : k \in 1..Len(lst)}
    /\ \A nome \in DOMAIN r.produtos :
          LET Named(v) == v.nome = nome
              sel == SelectSeq(lst, Named)
          IN  /\ Len(r.produtos[nome].vendas) = Len(sel)
              /\ r.produtos[nome].quantidade_total
                    = QuantityOf(d, IdsNamed(d, nome))
              /\ r.produtos[nome].faturamento_total
                    = RevenueUpTo(sel, Len(sel))

WithQuantity(lst, q) == [k \in 1..Len(lst) |-> [lst[k] EXCEPT !.quantidade = q]]

\* C22: in grouping by product, the mean price of a group is the sum of the
\* preco of the group's sales divided by their number; it does not depend on
\* the quantities.
C22_AveragePriceUnweighted ==
    (CallOf("analisar_vendas_por_produto") /\ ~ret.args.falha)
    => \A nome \in DOMAIN ret.val.produtos :
          LET Named(v) == v.nome = nome
              sel == SelectSeq(listar_todas(db), Named)
          IN  /\ ret.val.produtos[nome].preco_medio
                    = FDiv(PriceUpTo(sel, Len(sel)), Len(sel))
              /\ \A q \in 1..3 :
                    analisar_vendas_por_produto(
                        WithQuantity(listar_todas(db), q)).produtos[nome].preco_medio
                       = ret.val.produtos[nome].preco_medio

\* grouping by product has been computed over a snapshot with a group of two
\* sales whose mean price is not the group's revenue divided by its quantity
C22_Witness ==
    /\ CallOf("analisar_vendas_por_produto") /\ ~ret.args.falha
    /\ \E nome \in DOMAIN ret.val.produtos :
          /\ Len(ret.val.produtos[nome].vendas) = 2
          /\ ret.val.produtos[nome].preco_medio
                # FDiv(ret.val.produtos[nome].faturamento_total,
                       ret.val.produtos[nome].quantidade_total)

\* the place in the list of the first row named nome
FirstIndex(lst, nome) ==
    CHOOSE k \in 1..Len(lst) :
        lst[k].nome = nome /\ \A j \in 1..(k - 1) : lst[j].nome # nome

\* C23: for a non-empty snapshot, general statistics reports as most sold
\* product the group of the largest quantity and as product of highest
\* revenue the group of the largest revenue, with the totals grouping by
\* product gives; of several groups at the maximum, the one whose first row
\* comes earliest in the snapshot is taken. For the empty snapshot it
\* returns zeros and no products.
C23_BestProductsFirstOfMaxima ==
    (CallOf("obter_estatisticas_gerais") /\ ~ret.args.falha)
    => LET lst == listar_todas(db)
           g == analisar_vendas_por_produto(lst).produtos
           mv == ret.val.produto_mais_vendido
           mf == ret.val.produto_maior_faturamento
       IN  IF db = <<>>
           THEN /\ ret.val.total_vendas = 0
                /\ ret.val.faturamento_total = FZero
                /\ ret.val.quantidade_total = 0
                /\ ret.val.preco_medio = FZero
                /\ ret.val.quantidade_media = FZero
                /\ mv = None /\ mf = None
           ELSE /\ mv.nome \in DOMAIN g
                /\ mv.quantidade = g[mv.nome].quantidade_total
                /\ mv.quantidade = QuantityOf(db, IdsNamed(db, mv.nome))
                /\ \A n \in DOMAIN g :
                      /\ g[n].quantidade_total <= mv.quantidade
                      /\ (n # mv.nome /\ g[n].quantidade_total = mv.quantidade)
                         => FirstIndex(lst, mv.nome) < FirstIndex(lst, n)
                /\ mf.nome \in DOMAIN g
                /\ mf.faturamento = g[mf.nome].faturamento_total
                /\ \A n \in DOMAIN g :
                      /\ ~FLess(mf.faturamento, g[n].faturamento_total)
                      /\ (n # mf.nome /\ g[n].faturamento_total = mf.faturamento)
                         => FirstIndex(lst, mf.nome) < FirstIndex(lst, n)

\* general statistics has been computed over a snapshot in which two
\* products have the largest quantity
C23_Witness ==
    /\ CallOf("obter_estatisticas_gerais") /\ ~ret.args.falha
    /\ db # <<>>
    /\ \E i \in DOMAIN db :
          /\ db[i].nome # ret.val.produto_mais_vendido.nome
          /\ QuantityOf(db, IdsNamed(db, db[i].nome))
                = ret.val.produto_mais_vendido.quantidade

\* C24: trend on a snapshot of fewer than 2 rows returns the sentinel
\* 'insuficiente_dados' for the price trend and the quantity trend and 0 for
\* the growth of revenue, and does not raise.
C24_TrendInsufficientData ==
    (CallOf("buscar_tendencias") /\ ~ret.args.falha
        /\ Cardinality(DOMAIN db) < 2)
    => /\ ret.exc = NoExc
       /\ ret.val.tendencia_preco = "insuficiente_dados"
       /\ ret.val.tendencia_quantidade = "insuficiente_dados"
       /\ ret.val.crescimento_faturamento = FZero

\* trend has been computed over a snapshot of one row
C24_Witness ==
    /\ CallOf("buscar_tendencias") /\ ~ret.args.falha
    /\ Cardinality(DOMAIN db) = 1
    /\ ret.val.tendencia_preco = "insuficiente_dados"

\* the place in the list of the first of the rows of the smallest data_venda
Earliest(lst) ==
    CHOOSE k \in 1..Len(lst) :
        /\ \A j \in 1..Len(lst) : lst[k].data_venda <= lst[j].data_venda
        /\ \A j \in 1..(k - 1) : lst[j].data_venda # lst[k].data_venda

\* the place in the list of the last of the rows of the largest data_venda
Latest(lst) ==
    CHOOSE k \in 1..Len(lst) :
        /\ \A j \in 1..Len(lst) : lst[j].data_venda <= lst[k].data_venda
        /\ \A j \in (k + 1)..Len(lst) : lst[j].data_venda # lst[k].data_venda

\* 'crescente', 'decrescente' or 'estavel' as y is above, below or equal to x
Direction(x, y) ==
    IF y > x THEN "crescente" ELSE IF y < x THEN "decrescente" ELSE "estavel"

\* C25: with at least 2 rows, trend compares two rows only: of the rows of
\* the smallest data_venda the first in snapshot order, and of the rows of
\* the largest data_venda the last in snapshot order. The price trend is
\* 'crescente' if the price of the latest is above the price of the
\* earliest, 'decrescente' if below, 'estavel' if equal; the quantity trend
\* follows the same rule; the other rows have no influence.
C25_TrendComparesEarliestAndLatest ==
    (CallOf("buscar_tendencias") /\ ~ret.args.falha
        /\ Cardinality(DOMAIN db) >= 2)
    => LET lst == listar_todas(db)
           e == lst[Earliest(lst)]
           u == lst[Latest(lst)]
       IN  /\ ret.val.tendencia_preco = Direction(e.preco, u.preco)
           /\ ret.val.tendencia_quantidade
                 = Direction(e.quantidade, u.quantidade)
           /\ ret.val.periodo_analisado
                 = [inicio |-> e.data_venda, fim |-> u.data_venda]
           /\ ret.val = buscar_tendencias(<<e, u>>)

\* trend has been computed over three rows, two of which share the smallest
\* data_venda and differ in price
C25_Witness ==
    /\ CallOf("buscar_tendencias") /\ ~ret.args.falha
    /\ Cardinality(DOMAIN db) = 3
    /\ \E i \in DOMAIN db, j \in DOMAIN db :
          /\ i # j
          /\ db[i].data_venda = db[j].data_venda
          /\ db[i].preco # db[j].preco
          /\ \E k \in DOMAIN db : db[k].data_venda > db[i].data_venda
    /\ ret.val.tendencia_preco = "crescente"

\* C26: the summaries of one report (statistics, total revenue, low cost,
\* above average) come from one read of the table: the table is read once
\* for the request, and the summaries agree with one another: the revenue
\* and the number of sales of the statistics are those of total revenue.
C26_ReportFromOneSnapshot ==
    (CallOf("gerar_relatorio") /\ ret.args.passo = 4)
    => /\ ret.args.leituras = 1
       /\ ret.val.estatisticas.faturamento_total
             = ret.val.faturamento.faturamento_total
       /\ ret.val.estatisticas.total_vendas = ret.val.faturamento.total_itens

\* C27: the session a service context acquired is closed when the context
\* is left, on every path (its calls succeeded, failed validation, found no
\* such id or met a storage failure): the open sessions are exactly the
\* sessions of the active contexts, one each, so that no session is open
\* once no context is active.
C27_SessionsClosedOnExit ==
    /\ abertas = {contextos[k].session : k \in DOMAIN contextos}
    /\ Cardinality(abertas) = Len(contextos)
    /\ contextos = <<>> => abertas = {}

\* a storage failure raised by a call of a service has left every context
\* and has not been handled yet
C27_Witness ==
    /\ contextos = <<>>
    /\ abertas = {}
    /\ ret # Idle
    /\ ret.exc = SQLAlchemyError

\* C28: the validator agrees with create: for every name, price and
\* quantity, validar_dados_venda returns no error exactly when criar_venda
\* raises no validation error for the same input.
C28_ValidatorAgreesWithCreate ==
    /\ CallOf("validar_dados_venda")
       => (ret.val = <<>>
           <=> ValidarCriar(ret.args.nome, ret.args.preco,
                            ret.args.quantidade) = MsgOk)
    /\ CallOf("criar_venda")
       => (ret.exc # ValueError
           <=> validar_dados_venda(ret.args.nome, ret.args.preco,
                                   ret.args.quantidade) = <<>>)

\* C29: for every non-empty snapshot the number of items above the average
\* is smaller than total_vendas (some row is at or below the mean), and
\* when all rows have the same quantidade no item is above the average.
C29_SomeRowNotAboveAverage ==
    (CallOf("analisar_vendas_acima_da_media") /\ ~ret.args.falha
        /\ DOMAIN db # {})
    => /\ ret.val.total_itens_acima_media < ret.val.total_vendas
       /\ Len(ret.val.itens_acima_media) < Cardinality(DOMAIN db)
       /\ (\A i \in DOMAIN db, j \in DOMAIN db :
              db[i].quantidade = db[j].quantidade)
          => ret.val.itens_acima_media = <<>>

\* C30: when the legacy SQLite store holds n >= 1 rows and nothing fails,
\* executar_migracao returns True and leaves n new records in the new store,
\* each with the name, price and quantity of a legacy row and a newly
\* assigned id; it returns False only when no legacy data exists or a step
\* failed, and then the new store is as it was
C30_MigrationSavesLegacyRows ==
    [][ (ret = Idle /\ ret'.op = "executar_migracao") =>
        LET a == ret'.args
            falhou == a.falha_init \/ a.falha_leitura \/ a.falha_escrita
            novos == DOMAIN db' \ DOMAIN db
        IN  /\ (a.sqlite # None /\ a.json = None /\ Len(a.sqlite[1]) >= 1
                   /\ ~falhou)
               => /\ ret'.val = TRUE
                  /\ Cardinality(novos) = Len(a.sqlite[1])
                  /\ \A i \in DOMAIN db : db'[i] = db[i]
                  /\ \A k \in 1..Len(a.sqlite[1]) :
                        \E i \in novos :
                           /\ db'[i].nome = a.sqlite[1][k].nome
                           /\ db'[i].preco = a.sqlite[1][k].preco
                           /\ db'[i].quantidade = a.sqlite[1][k].quantidade
            /\ ret'.val = FALSE
               => /\ db' = db
                  /\ \/ falhou
                     \/ a.sqlite = None /\ a.json = None
                     \/ \A s \in {a.sqlite, a.json} : s = None \/ s = Some(<<>>) ]_vars

====
